---- MODULE Spec2Model ----
(***************************************************************************)
(* A model of scanpy/neighbors/__init__.py: the lazy distance matrix       *)
(* OnFlySymMatrix with its shared row cache, and the Neighbors object with *)
(* its exact neighbor search, kernel construction and eigen decomposition. *)
(*                                                                         *)
(* Three specifications are given over one set of variables:               *)
(*   SpecView  the lazy views of one Neighbors object (the Neighbors       *)
(*             fields stay as constructed);                                *)
(*   SpecPipe  the function neighbors(): construct, compute_distances,     *)
(*             compute_similarities, over point sets with duplicates;      *)
(*   Spec      a Neighbors object driven by arbitrary calls.               *)
(***************************************************************************)
EXTENDS Integers, Sequences, FiniteSets, TLC

VARIABLES
    \* ---- the lazy views (OnFlySymMatrix) of one Neighbors object ----
    gen,        \* epoch of the spectrum (evals, rbasis, lbasis) get_row reads
    heap,       \* the row dictionaries: heap[c] is one dict, global row |-> row
    views,      \* the OnFlySymMatrix objects; views[v].rows is an index of heap
    calls,      \* call counter of get_row: calls[r][g], r the unrestricted view
    first,      \* first[r][g]: the row get_row produced when g was first asked
    ret,        \* the last operation on a view: the view, the index asked for,
                \* the global row and column read, whether get_row ran, the
                \* value returned
    \* ---- the Neighbors object ----
    X,          \* the data points (adata.X), one coordinate each
    n_neighbors, knn, distances, similarities, flavor,
    Wmat,       \* the weight matrix W of the last compute_similarities
    sqrtz,      \* TRUE once compute_similarities has set .z and .sqrtz
    spectrum,   \* evals, rbasis, lbasis
    Dchosen,    \* the lazy distance view of the Neighbors object
    simFrom,    \* the distance graph the stored similarities were derived from
    call,       \* the last call: its name, its arguments, whether it raised
    ncalls,     \* the number of calls made on the Neighbors object
    sym,        \* the attribute .sym
    iroot,      \* the root index: <<>> is None, <<c>> the index c (from 0)
    uns,        \* the persisted slots of adata the object was built on
    decomposed, \* the spectrum that the last completed compute_eigen stored
    returned,   \* the row that the last Dchosen[i] returned
    pseudotime, \* the attribute .pseudotime (None while it is not set)
    search      \* a call of get_distance_matrix_and_neighbors(sparse=True): its
                \* arguments, its chunks, its workers' results, its output

viewVars == <<gen, heap, views, calls, first, ret>>
rootVars == <<sym, iroot, uns>>
eigVars == <<decomposed, returned, pseudotime>>
nbrVars == <<X, n_neighbors, knn, distances, similarities, flavor, Wmat, sqrtz,
             spectrum, Dchosen, simFrom, call, ncalls, sym, iroot, uns,
             decomposed, returned, pseudotime>>
vars == <<gen, heap, views, calls, first, ret,
          X, n_neighbors, knn, distances, similarities, flavor, Wmat, sqrtz,
          spectrum, Dchosen, simFrom, call, ncalls, sym, iroot, uns,
          decomposed, returned, pseudotime, search>>

\* Python's None, as a value of its own
None == [none |-> TRUE]

(***************************************************************************)
(* Bounds of the model                                                     *)
(***************************************************************************)
\* rows of the lazy matrix
NRows == 2
\* OnFlySymMatrix objects alive at once
MaxViews == 3
\* times the spectrum is replaced while views are alive
MaxGen == 1
\* length of an index array given to restrict()
MaxSub == 2

Rows == 0 .. (NRows - 1)
\* the index arrays restrict() is given: any order, repetitions allowed
IndexArrays == UNION {[1 .. n -> Rows] : n \in 1 .. MaxSub}

(***************************************************************************)
(* OnFlySymMatrix                                                          *)
(***************************************************************************)
Abs(a) == IF a < 0 THEN 0 - a ELSE a

\* self.get_row(glob_index): the row of a symmetric matrix with zero
\* diagonal, computed from the spectrum of epoch e (as _get_Ddiff_row
\* computes it from evals, rbasis and lbasis)
GetRow(e, g) == [j \in Rows |-> (e + 1) * Abs(g - j)]

\* the argument rows=None of OnFlySymMatrix.__init__ (dicts are numbered from 1)
NoRows == 0

\* __init__, line 344: self.rows = {} if rows is None else rows.
\* rows is NoRows or an index of h; returns the heap and the dict's index.
InitRowsTruthy(h, rows) ==
    IF rows = NoRows \/ DOMAIN h[rows] = {}
    THEN [heap |-> Append(h, <<>>), rows |-> Len(h) + 1]
    ELSE [heap |-> h, rows |-> rows]

InitRows(h, rows) ==
    IF rows = NoRows THEN [heap |-> Append(h, <<>>), rows |-> Len(h) + 1]
                     ELSE [heap |-> h, rows |-> rows]

\* __getitem__, lines 349-353 and 362-366: the global index of a logical one.
\* Index arrays are 0-based in the code and 1-based sequences here.
GlobIndex(v, index) ==
    IF v.restricted THEN v.restrict_array[index + 1] ELSE index

PairGlobNoColumn(v, i, j) == <<GlobIndex(v, i), j>>

PairGlob(v, i, j) == <<GlobIndex(v, i), GlobIndex(v, j)>>

\* __getitem__, lines 354 and 367: if glob_index not in self.rows
NeedsRowAlways(cache, g) == TRUE

NeedsRow(cache, g) == g \notin DOMAIN cache

\* lines 355 and 368: self.rows[glob_index] = self.get_row(glob_index)
StoreRow(cache, g, e) ==
    [x \in (DOMAIN cache) \cup {g} |-> IF x = g THEN GetRow(e, g) ELSE cache[x]]

EnsureRow(h, v, e, g) ==
    IF NeedsRow(h[v.rows], g)
    THEN [h EXCEPT ![v.rows] = StoreRow(h[v.rows], g, e)]
    ELSE h

\* __getitem__ with an integer index, lines 348-360
GetItemInt(h, v, e, index) ==
    LET g == GlobIndex(v, index)
        h2 == EnsureRow(h, v, e, g)
        row == h2[v.rows][g]
    IN [heap |-> h2,
        invoked |-> IF NeedsRow(h[v.rows], g) THEN {g} ELSE {},
        glob |-> g,
        value |-> IF v.restricted
                  THEN [p \in 1 .. Len(v.restrict_array) |-> row[v.restrict_array[p]]]
                  ELSE row]

\* __getitem__ with a pair index, lines 361-369
GetItemPair(h, v, e, i, j) ==
    LET gg == PairGlob(v, i, j)
        h2 == EnsureRow(h, v, e, gg[1])
    IN [heap |-> h2,
        invoked |-> IF NeedsRow(h[v.rows], gg[1]) THEN {gg[1]} ELSE {},
        glob |-> gg[1],
        col |-> gg[2],
        value |-> h2[v.rows][gg[1]][gg[2]]]

\* restrict() as it would be if the index array were read through the index
\* array of the view it is called on
RestrictViewComposed(h, v, index_array) ==
    LET r == InitRows(h, v.rows)
        through(g) == IF v.restricted /\ g + 1 \in DOMAIN v.restrict_array
                      THEN v.restrict_array[g + 1] ELSE g
    IN [heap |-> r.heap,
        view |-> [rows |-> r.rows, restricted |-> TRUE,
                  restrict_array |-> [p \in DOMAIN index_array |-> through(index_array[p])],
                  shape |-> Len(index_array), root |-> v.root]]

\* restrict(), lines 371-377: a new OnFlySymMatrix over rows=self.rows
RestrictView(h, v, index_array) ==
    LET r == InitRows(h, v.rows)
    IN [heap |-> r.heap,
        view |-> [rows |-> r.rows, restricted |-> TRUE,
                  restrict_array |-> index_array,
                  shape |-> Len(index_array), root |-> v.root]]

\* OnFlySymMatrix(get_row, shape), as compute_eigen constructs it (line 754)
NewView(h, root) ==
    LET r == InitRows(h, NoRows)
    IN [heap |-> r.heap,
        view |-> [rows |-> r.rows, restricted |-> FALSE,
                  restrict_array |-> <<>>, shape |-> NRows, root |-> root]]

ZeroCalls == [g \in Rows |-> 0]

CountCalls(c, root, invoked) ==
    [c EXCEPT ![root] = [g \in Rows |-> IF g \in invoked THEN @[g] + 1 ELSE @[g]]]

NoteFirst(f, root, invoked, h, cid) ==
    [f EXCEPT ![root] =
        [g \in (DOMAIN @) \cup invoked |->
            IF g \in DOMAIN @ THEN @[g] ELSE h[cid][g]]]

\* view[index], index an integer
LookupRow(vi, index) ==
    /\ vi \in 1 .. Len(views)
    /\ index \in 0 .. (views[vi].shape - 1)
    /\ LET v == views[vi]
           r == GetItemInt(heap, v, gen, index)
       IN /\ heap' = r.heap
          /\ calls' = CountCalls(calls, v.root, r.invoked)
          /\ first' = NoteFirst(first, v.root, r.invoked, r.heap, v.rows)
          /\ ret' = [kind |-> "row", view |-> vi, index |-> <<index>>,
                     glob |-> r.glob, col |-> 0,
                     computed |-> r.invoked # {}, value |-> r.value]
    /\ UNCHANGED <<gen, views>>
    /\ UNCHANGED nbrVars
    /\ UNCHANGED search

\* view[i, j]
LookupPair(vi, i, j) ==
    /\ vi \in 1 .. Len(views)
    /\ i \in 0 .. (views[vi].shape - 1)
    /\ j \in 0 .. (views[vi].shape - 1)
    /\ LET v == views[vi]
           r == GetItemPair(heap, v, gen, i, j)
       IN /\ heap' = r.heap
          /\ calls' = CountCalls(calls, v.root, r.invoked)
          /\ first' = NoteFirst(first, v.root, r.invoked, r.heap, v.rows)
          /\ ret' = [kind |-> "pair", view |-> vi, index |-> <<i, j>>,
                     glob |-> r.glob, col |-> r.col,
                     computed |-> r.invoked # {}, value |-> <<r.value>>]
    /\ UNCHANGED <<gen, views>>
    /\ UNCHANGED nbrVars
    /\ UNCHANGED search

\* view.restrict(index_array)
Restrict(vi, index_array) ==
    /\ vi \in 1 .. Len(views)
    /\ Len(views) < MaxViews
    /\ LET r == RestrictView(heap, views[vi], index_array)
       IN /\ heap' = r.heap
          /\ views' = Append(views, r.view)
    /\ calls' = Append(calls, ZeroCalls)
    /\ first' = Append(first, <<>>)
    /\ ret' = [kind |-> "restrict", view |-> vi, index |-> index_array, glob |-> 0,
               col |-> 0, computed |-> FALSE, value |-> <<>>]
    /\ UNCHANGED gen
    /\ UNCHANGED nbrVars
    /\ UNCHANGED search

\* compute_eigen as the views see it: the spectrum get_row reads is replaced
\* (lines 733-744) and a new unrestricted view with an empty dict is created
\* (line 754); the views made before stay with their holders.
SpectrumChanges ==
    /\ gen < MaxGen
    /\ Len(views) < MaxViews
    /\ gen' = gen + 1
    /\ LET r == NewView(heap, Len(views) + 1)
       IN /\ heap' = r.heap
          /\ views' = Append(views, r.view)
    /\ calls' = Append(calls, ZeroCalls)
    /\ first' = Append(first, <<>>)
    /\ ret' = [kind |-> "eigen", view |-> Len(views) + 1, index |-> <<>>,
               glob |-> 0, col |-> 0, computed |-> FALSE, value |-> <<>>]
    /\ UNCHANGED nbrVars
    /\ UNCHANGED search

\* no call of get_distance_matrix_and_neighbors is under way
NoSearch == [phase |-> "none"]

InitViews ==
    /\ gen = 0
    /\ heap = NewView(<<>>, 1).heap
    /\ views = <<NewView(<<>>, 1).view>>
    /\ calls = <<ZeroCalls>>
    /\ first = << <<>> >>
    /\ ret = [kind |-> "init", view |-> 1, index |-> <<>>, glob |-> 0,
              col |-> 0, computed |-> FALSE, value |-> <<>>]

(***************************************************************************)
(* Bounds of the Neighbors model                                           *)
(***************************************************************************)
\* number of data points
MaxN == 3
\* coordinates of the data points are 0 .. MaxCoord
MaxCoord == 2
\* requested n_neighbors is 1 .. MaxK
MaxK == 4
\* calls made on one Neighbors object
MaxCalls == 3
\* the runs of neighbors() over one adata
MaxRuns == 1

\* Points are numbered 1 .. N here and 0 .. N-1 in the code.
NObs(x) == Len(x)
Obs(x) == 1 .. Len(x)

\* point sets, up to renumbering of the points (every choice the model makes
\* among tied points is made for every numbering) and up to translation (the
\* search reads the points through their distances only)
IsNondecreasing(x) == \A i \in 1 .. (Len(x) - 1) : x[i] <= x[i + 1]
PointSets ==
    UNION {{x \in [1 .. n -> 0 .. MaxCoord] : x[1] = 0 /\ IsNondecreasing(x)} :
              n \in 1 .. MaxN}
\* point sets whose points are pairwise different
DistinctPointSets ==
    {x \in PointSets : \A i \in Obs(x), j \in Obs(x) : i # j => x[i] # x[j]}

(***************************************************************************)
(* Exact neighbor search                                                   *)
(***************************************************************************)
\* utils.comp_sqeuclidean_distance_using_matrix_mult, as called in lines 80
\* and 94: the matrix of squared Euclidean distances
SqDist(x) == [i \in Obs(x) |-> [j \in Obs(x) |-> (x[i] - x[j]) * (x[i] - x[j])]]

SeqSet(s) == {s[p] : p \in DOMAIN s}
IsInjective(s) == \A p \in DOMAIN s, q \in DOMAIN s : p # q => s[p] # s[q]
DropFirst(s) == [p \in 1 .. (Len(s) - 1) |-> s[p + 1]]

\* np.argpartition(Dsq, k-1)[:k] followed by the argsort of the selected k
\* (lines 82-84, 314-315): k indices whose distances are the k smallest,
\* ascending by distance. Which of several tied indices is selected, and the
\* order of tied indices, is whatever the selection and the sort produce:
\* every such order is an outcome.
SortedSelections(drow, k) ==
    {s \in [1 .. k -> DOMAIN drow] :
        /\ IsInjective(s)
        /\ \A p \in 1 .. (k - 1) : drow[s[p]] <= drow[s[p + 1]]
        /\ \A j \in (DOMAIN drow) \ SeqSet(s) : drow[j] >= drow[s[k]]}

\* lines 85 and 316: indices[:, 1:], "exclude first data point (point itself)"
RowNeighbors(drow, k) == {DropFirst(s) : s \in SortedSelections(drow, k)}

\* all index arrays (one row per point) the search can return
RECURSIVE IndexArraysUpTo(_, _, _)
IndexArraysUpTo(D, k, n) ==
    IF n = 0 THEN {<<>>}
    ELSE {Append(a, r) : a \in IndexArraysUpTo(D, k, n - 1), r \in RowNeighbors(D[n], k)}

\* get_neighbors (lines 79-87) and
\* get_indices_distances_of_k_nearest_from_dense_matrix (lines 312-318):
\* the possible (indices, distances) results
GetNeighbors(D, k) ==
    {[indices |-> a,
      distances |-> [i \in DOMAIN a |-> [c \in DOMAIN a[i] |-> D[i][a[i][c]]]]] :
        a \in IndexArraysUpTo(D, k, Len(D))}

\* ravel() of an N x w array
RECURSIVE Ravel(_)
Ravel(a) == IF Len(a) = 0 THEN <<>> ELSE a[1] \o Ravel(Tail(a))

\* get_sparse_distance_matrix, lines 281-289. np.arange(0, n_nonzero + 1, 0)
\* raises ZeroDivisionError when n_neighbors - 1 = 0.
SparseRaises(n_nbrs) == n_nbrs - 1 = 0

\* the row pointer of get_sparse_distance_matrix_umap, lines 293-294, which
\* does not take one off n_neighbors
GetSparseDistanceMatrixUmap(indices, dists, n_obs, n_nbrs) ==
    [sparse |-> TRUE, shape |-> n_obs,
     indptr |-> [i \in 1 .. (n_obs + 1) |-> (i - 1) * n_nbrs],
     indices |-> Ravel(indices),
     data |-> Ravel(dists)]

GetSparseDistanceMatrix(indices, dists, n_obs, n_nbrs) ==
    [sparse |-> TRUE, shape |-> n_obs,
     indptr |-> [i \in 1 .. (n_obs + 1) |-> (i - 1) * (n_nbrs - 1)],
     indices |-> Ravel(indices),
     data |-> Ravel(dists)]

DenseMatrix(D) == [sparse |-> FALSE, shape |-> Len(D), m |-> D]

\* row i of a compressed sparse row matrix: its stored positions
RowSlots(M, i) == (M.indptr[i] + 1) .. M.indptr[i + 1]
\* the stored (column, value) pairs of row i, in storage order
RowEntries(M, i) ==
    [p \in 1 .. (M.indptr[i + 1] - M.indptr[i]) |->
        <<M.indices[M.indptr[i] + p], M.data[M.indptr[i] + p]>>]

\* compute_distances, lines 519-520
EffectiveKAtLeast(k, n) == IF k >= n THEN 1 + (n \div 2) ELSE k

EffectiveK(k, n) == IF k > n THEN 1 + (n \div 2) ELSE k

(***************************************************************************)
(* Matrix values. Weights are real numbers in the code; here a weight is   *)
(* the term the code computes it from, so two entries are equal here only  *)
(* if the code computes them from equal operands.                          *)
(***************************************************************************)
Zero == [kind |-> "zero"]
NaN == [kind |-> "nan"]
Num(v) == IF v = 0 THEN Zero ELSE [kind |-> "num", v |-> v]

\* a matrix kept as its stored entries: e maps the stored <<i, j>> to values
Entries(sparse, n, e) == [sparse |-> sparse, shape |-> n, e |-> e]

IsCsr(M) == "indptr" \in DOMAIN M
IsDenseArray(M) == "m" \in DOMAIN M

\* the stored positions of a matrix
Stored(M) ==
    IF IsCsr(M)
    THEN UNION {{<<i, M.indices[p]>> : p \in RowSlots(M, i)} : i \in 1 .. M.shape}
    ELSE IF IsDenseArray(M) THEN (1 .. M.shape) \X (1 .. M.shape)
    ELSE DOMAIN M.e

\* M[i, j] as a value: what is not stored is zero
MatVal(M, i, j) ==
    IF IsCsr(M)
    THEN LET hit == {p \in RowSlots(M, i) : M.indices[p] = j}
         IN IF hit = {} THEN Zero ELSE Num(M.data[CHOOSE p \in hit : TRUE])
    ELSE IF IsDenseArray(M) THEN Num(M.m[i][j])
    ELSE IF <<i, j>> \in DOMAIN M.e THEN M.e[<<i, j>>] ELSE Zero

IsSymmetric(M) ==
    \A i \in 1 .. M.shape, j \in 1 .. M.shape : MatVal(M, i, j) = MatVal(M, j, i)

\* the sparsity pattern is symmetric
PatternSymmetric(M) ==
    \A i \in 1 .. M.shape, j \in 1 .. M.shape :
        (<<i, j>> \in Stored(M)) <=> (<<j, i>> \in Stored(M))

(***************************************************************************)
(* compute_similarities                                                    *)
(***************************************************************************)
\* Dsq[i].nonzero() of a sparse row: the stored entries whose value is not 0
RECURSIVE NonZeroEntries(_)
NonZeroEntries(es) ==
    IF Len(es) = 0 THEN <<>>
    ELSE IF es[1][2] # 0 THEN <<es[1]>> \o NonZeroEntries(Tail(es))
    ELSE NonZeroEntries(Tail(es))

\* lines 307-308: indices[i] = neighbors[1] assigns m values to a row of
\* width w. numpy accepts m = w, and broadcasts m = 1; otherwise it raises.
FitsRow(m, w) == m = w \/ m = 1

AssignRow(vals, w) ==
    IF Len(vals) = w THEN vals ELSE [c \in 1 .. w |-> vals[1]]

\* get_indices_distances_from_sparse_matrix, lines 302-309
SparseRowsRaise(Dsq, n_nbrs) ==
    \E i \in 1 .. Dsq.shape :
        ~FitsRow(Len(NonZeroEntries(RowEntries(Dsq, i))), n_nbrs - 1)

GetIndicesDistancesFromSparseMatrix(Dsq, n_nbrs) ==
    LET nz(i) == NonZeroEntries(RowEntries(Dsq, i))
    IN [indices |-> [i \in 1 .. Dsq.shape |->
                        AssignRow([c \in DOMAIN nz(i) |-> nz(i)[c][1]], n_nbrs - 1)],
        distances |-> [i \in 1 .. Dsq.shape |->
                        AssignRow([c \in DOMAIN nz(i) |-> nz(i)[c][2]], n_nbrs - 1)]]

\* ascending sort of a sequence of numbers
RECURSIVE SortAsc(_)
SortAsc(s) ==
    IF Len(s) = 0 THEN <<>>
    ELSE LET p == CHOOSE p \in DOMAIN s : \A q \in DOMAIN s : s[p] <= s[q]
         IN <<s[p]>> \o SortAsc([c \in 1 .. (Len(s) - 1) |-> IF c < p THEN s[c] ELSE s[c + 1]])

\* np.median of a row, line 578, as twice the median (an integer); the
\* median of an empty row is nan, written -1
NanSigma == 0 - 1
TwiceMedian(row) ==
    LET w == Len(row)
        t == SortAsc(row)
    IN IF w = 0 THEN NanSigma
       ELSE IF w % 2 = 1 THEN 2 * t[(w + 1) \div 2]
       ELSE t[w \div 2] + t[(w \div 2) + 1]

\* line 583: distances_sq[:, -1] / 4, as four times its value: the distance
\* of the last selected neighbor, which is the k-th smallest of the row
KthSmallest(drow, k) == SortAsc([j \in DOMAIN drow |-> drow[j]])[k]

\* lines 588-590 and 612-614: sqrt(2 s_i s_j / (s_i^2 + s_j^2)) *
\* exp(-d / (s_i^2 + s_j^2)), a symmetric function of the two bandwidths
Weight(si, sj, d) == [kind |-> "w", s |-> {si, sj}, d |-> d]

\* lines 593-594 (dense): W > 1e-14. With bandwidths si = 4 sigma_i^2 the
\* weight is nan when both are zero and 0 when one is; otherwise it is
\* above 1e-14 unless exp(-4 d / (si + sj)) is below it (the factor in front
\* lies in (0, 1] and is left out of the threshold)
AboveMask(si, sj, d) == si > 0 /\ sj > 0 /\ 4000 * d < 32236 * (si + sj)

\* the dense weight matrix, lines 588-594 (self.knn is False on this path:
\* with knn True and a dense matrix line 561 has raised)
DenseWeights(D, sig) ==
    Entries(FALSE, Len(D),
        [ij \in (1 .. Len(D)) \X (1 .. Len(D)) |->
            IF AboveMask(sig[ij[1]], sig[ij[2]], D[ij[1]][ij[2]])
            THEN Weight(sig[ij[1]], sig[ij[2]], D[ij[1]][ij[2]])
            ELSE Zero])

\* lines 609-614: W = Dsq.copy() with every stored entry replaced by its weight
SparseWeights(Dsq, sig) ==
    [ij \in Stored(Dsq) |->
        LET p == CHOOSE p \in RowSlots(Dsq, ij[1]) : Dsq.indices[p] = ij[2]
        IN Weight(sig[ij[1]], sig[ij[2]], Dsq.data[p])]

\* the distance matrix after lines 609-614: without the copy of line 609 the
\* weights, which lie in [0, 1] and are 1 at distance 0 only, would be written
\* into the data of the distances (kept here by their integer part)
DistancesOverwritten(Dsq, sig) ==
    [Dsq EXCEPT !.data = [p \in DOMAIN Dsq.data |-> IF Dsq.data[p] = 0 THEN 1 ELSE 0]]

\* line 609: W = Dsq.copy(), "what follows is inplace" on W
DistancesKept(Dsq, sig) == Dsq

\* W[j, i] = W[i, j] on the list-of-lists matrix (what is not stored reads 0)
SetEntry(e, j, i, v) ==
    [ij \in (DOMAIN e) \cup {<<j, i>>} |-> IF ij = <<j, i>> THEN v ELSE e[ij]]
ReadEntry(e, i, j) == IF <<i, j>> \in DOMAIN e THEN e[<<i, j>>] ELSE Zero

\* lines 616-619: for i, row in enumerate(indices): for j in row:
\*                    if i not in set(indices[j]): W[j, i] = W[i, j]
\* from row i, column position c on
RECURSIVE MirrorFrom(_, _, _, _)
MirrorFrom(e, indices, i, c) ==
    IF i > Len(indices) THEN e
    ELSE IF c > Len(indices[i]) THEN MirrorFrom(e, indices, i + 1, 1)
    ELSE LET j == indices[i][c]
         IN IF i \notin SeqSet(indices[j])
            THEN MirrorFrom(SetEntry(e, j, i, ReadEntry(e, i, j)), indices, i, c + 1)
            ELSE MirrorFrom(e, indices, i, c + 1)

Symmetrize(e, indices) == MirrorFrom(e, indices, 1, 1)

\* W.sum(axis=0)[j], lines 636, 643, 654, 664: the sum of column j, kept as
\* the entries it adds up (a sum of nothing is 0)
ColSum(M, j) == {<<i, M.e[<<i, j>>]>> : i \in {r \in 1 .. M.shape : <<r, j>> \in DOMAIN M.e /\ M.e[<<r, j>>] # Zero}}

\* v / (a * b), lines 641, 648, 662, 673; tag tells the normalisations apart
Divide(v, a, b, tag) ==
    IF a = {} \/ b = {} THEN NaN
    ELSE IF v = Zero THEN Zero
    ELSE [kind |-> tag, v |-> v, by |-> {a, b}]

Normalize(M, tag) ==
    Entries(M.sparse, M.shape,
        [ij \in DOMAIN M.e |-> Divide(M.e[ij], ColSum(M, ij[1]), ColSum(M, ij[2]), tag)])

\* the requested alpha values
Alphas == {0, 1}

\* lines 629-648: density normalisation
Kernel(W, alpha) == IF alpha = 0 THEN W ELSE Normalize(W, "K")

\* lines 651-673: Ktilde
Ktilde(K) == Normalize(K, "Ktilde")

\* line 570: self._distances.sign()
Sign(Dsq) == [Dsq EXCEPT !.data = [p \in DOMAIN Dsq.data |-> IF Dsq.data[p] > 0 THEN 1 ELSE 0]]

(***************************************************************************)
(* The Neighbors object                                                    *)
(***************************************************************************)
PyBool(b) == IF b THEN "True" ELSE "False"

\* compute_knn_umap (lines 131-278) runs the umap library's approximate
\* search: it returns index and distance arrays of n_neighbors - 1 columns
\* (here: some result the exact search can return), or raises
KnnUmap(D, k) == GetNeighbors(D, k)

\* compute_distances, lines 519-533: the possible outcomes. n_neighbors and
\* knn are assigned before the search runs, so they are set also when the
\* call raises. found is the pair of arrays the search returned, which is
\* handed to get_sparse_distance_matrix.
DistancesOutcomes(x, old, k, knn_arg, umap) ==
    LET n == NObs(x)
        ke == EffectiveK(k, n)
        D == SqDist(x)
        failed == [raised |-> TRUE, n_neighbors |-> ke, knn |-> PyBool(knn_arg),
                   distances |-> old, found |-> None]
        done(M, r) == [raised |-> FALSE, n_neighbors |-> ke, knn |-> PyBool(knn_arg),
                       distances |-> M, found |-> r]
    IN IF ~umap /\ ~knn_arg
       THEN {done(DenseMatrix(D), None)}
       ELSE IF SparseRaises(ke)
       THEN {failed}
       ELSE {done(GetSparseDistanceMatrix(r.indices, r.distances, n, ke), r) :
                r \in IF umap THEN KnnUmap(D, ke) ELSE GetNeighbors(D, ke)}
            \cup (IF umap THEN {failed} ELSE {})

\* compute_similarities, lines 556-674: what the call leaves behind
SimilaritiesOutcome(old, Dsq, knn_, n_nbrs, flav, alpha) ==
    LET failed == [raised |-> TRUE, similarities |-> old.similarities,
                   Wmat |-> old.Wmat, sqrtz |-> old.sqrtz, distances |-> Dsq]
        finish(W, D) == [raised |-> FALSE, similarities |-> Ktilde(Kernel(W, alpha)),
                         Wmat |-> W, sqrtz |-> TRUE, distances |-> D]
    IN IF Dsq = None THEN failed
       ELSE IF knn_ = "True"
       THEN \* line 561; a dense Dsq has no Dsq[i].nonzero()[1]
            IF ~Dsq.sparse \/ SparseRowsRaise(Dsq, n_nbrs) THEN failed
            ELSE IF flav = "unweighted"
            THEN [raised |-> FALSE, similarities |-> Sign(Dsq),
                  Wmat |-> old.Wmat, sqrtz |-> old.sqrtz, distances |-> Dsq]
            ELSE LET nb == GetIndicesDistancesFromSparseMatrix(Dsq, n_nbrs)
                     sig == [i \in 1 .. Dsq.shape |-> TwiceMedian(nb.distances[i])]
                 IN finish(Entries(TRUE, Dsq.shape,
                                   Symmetrize(SparseWeights(Dsq, sig), nb.indices)),
                           DistancesKept(Dsq, sig))
       ELSE \* line 564; np.argpartition raises on a sparse matrix
            IF Dsq.sparse THEN failed
            ELSE IF flav = "unweighted" THEN failed
            \* line 583: distances_sq[:, -1] of an array without columns
            ELSE IF n_nbrs - 1 = 0 THEN failed
            ELSE LET sig == [i \in 1 .. Dsq.shape |-> KthSmallest(Dsq.m[i], n_nbrs)]
                 IN finish(DenseWeights(Dsq.m, sig), Dsq)

\* the matrix passed to compute_eigen(matrix=...)
ExplicitMatrix(n) ==
    Entries(FALSE, n, [ij \in (1 .. n) \X (1 .. n) |-> Num(IF ij[1] = ij[2] THEN 1 ELSE 0)])

\* a raise in compute_eigen before anything is assigned (lines 709-710, and
\* the solvers' own errors in lines 713 and 721)
EigenFailedReset(old) ==
    [raised |-> TRUE, spectrum |-> [evals |-> None, rbasis |-> None, lbasis |-> None],
     Dchosen |-> None]

EigenFailed(old) ==
    [raised |-> TRUE, spectrum |-> old.spectrum, Dchosen |-> old.Dchosen]

\* compute_eigen, lines 705-754. The spectrum is kept as what it was computed
\* from: the matrix decomposed and the number of eigenpairs asked for; stale
\* says the matrix was not derived from the stored distances.

EigenOutcome(old, sims, n, n_comps, sym_arg, explicit, has_sqrtz, stale) ==
    LET matrix == IF explicit THEN ExplicitMatrix(n) ELSE sims
        failed == EigenFailed(old)
        \* line 713: all n eigenpairs; line 716: min(n - 1, n_comps) of them
        m == IF n_comps = 0 THEN n ELSE IF n - 1 < n_comps THEN n - 1 ELSE n_comps
        evals == [kind |-> "evals", of |-> matrix, n |-> m,
                  stale |-> stale /\ ~explicit]
        basis(kind) == [kind |-> kind, of |-> matrix, n |-> m,
                        stale |-> stale /\ ~explicit]
        view == [rows |-> <<>>, shape |-> n]
    IN IF matrix = None THEN failed
       \* line 713: scipy.linalg.eigh takes no sparse matrix
       ELSE IF n_comps = 0 /\ matrix.sparse THEN failed
       \* line 721: eigsh needs k > 0
       ELSE IF n_comps # 0 /\ m < 1 THEN failed
       ELSE IF sym_arg
       THEN [raised |-> FALSE,
             spectrum |-> [evals |-> evals, rbasis |-> basis("evecs"),
                           lbasis |-> basis("evecs")],
             Dchosen |-> view]
       \* line 743 reads self.sqrtz, which only compute_similarities sets;
       \* self.evals is assigned before (line 733)
       ELSE IF ~has_sqrtz
       THEN [raised |-> TRUE, spectrum |-> [old.spectrum EXCEPT !.evals = evals],
             Dchosen |-> old.Dchosen]
       ELSE [raised |-> FALSE,
             spectrum |-> [evals |-> evals, rbasis |-> basis("right"),
                           lbasis |-> basis("left")],
             Dchosen |-> view]

\* adata.uns as this module reads and writes it: the two graph slots (None
\* when absent), the slots 'iroot' and 'xroot' (<<>> when absent, else <<v>>).
\* run notes the knn flag and the neighbor number of the neighbors() call
\* that wrote both graph slots.
NoRun == [knn |-> "None", n_neighbors |-> 0]
EmptyStore ==
    [neighbors_distances |-> None, neighbors_similarities |-> None,
     iroot |-> <<>>, xroot |-> <<>>, run |-> NoRun]

\* Neighbors(adata) on a store without graphs, spectrum or root, lines 414-460
InitNeighbors(points) ==
    /\ X = points
    /\ n_neighbors = 0
    /\ knn = "None"
    /\ distances = None
    /\ similarities = None
    /\ flavor = "haghverdi16"
    /\ Wmat = None
    /\ sqrtz = FALSE
    /\ spectrum = [evals |-> None, rbasis |-> None, lbasis |-> None]
    /\ Dchosen = None
    /\ simFrom = None
    /\ call = [name |-> "init", k |-> 0, umap |-> FALSE, explicit |-> FALSE,
               alpha |-> 0, again |-> FALSE, found |-> None, raised |-> FALSE]
    /\ ncalls = 0
    /\ sym = TRUE
    /\ iroot = <<>>
    /\ uns = EmptyStore
    /\ decomposed = None
    /\ returned = None
    /\ pseudotime = None

ComputeDistances(k, knn_arg, umap) ==
    /\ ncalls < MaxCalls
    /\ ncalls' = ncalls + 1
    /\ \E o \in DistancesOutcomes(X, distances, k, knn_arg, umap) :
        /\ n_neighbors' = o.n_neighbors
        /\ knn' = o.knn
        /\ distances' = o.distances
        /\ call' = [name |-> "compute_distances", k |-> k, umap |-> umap,
                    explicit |-> FALSE, alpha |-> 0, again |-> FALSE, found |-> o.found,
                    raised |-> o.raised]
    /\ UNCHANGED <<X, similarities, flavor, Wmat, sqrtz, spectrum, Dchosen, simFrom>>
    /\ UNCHANGED rootVars
    /\ UNCHANGED eigVars
    /\ UNCHANGED viewVars
    /\ UNCHANGED search

\* the call repeats the call before it: that was compute_similarities with
\* the same alpha, and it completed
Again(alpha) ==
    call.name = "compute_similarities" /\ ~call.raised /\ call.alpha = alpha

ComputeSimilarities(alpha) ==
    /\ ncalls < MaxCalls
    /\ ncalls' = ncalls + 1
    /\ LET o == SimilaritiesOutcome([similarities |-> similarities, Wmat |-> Wmat,
                                     sqrtz |-> sqrtz],
                                    distances, knn, n_neighbors, flavor, alpha)
       IN /\ similarities' = o.similarities
          /\ Wmat' = o.Wmat
          /\ sqrtz' = o.sqrtz
          /\ distances' = o.distances
          /\ simFrom' = IF o.raised THEN simFrom ELSE distances
          /\ call' = [name |-> "compute_similarities", k |-> 0, umap |-> FALSE,
                      explicit |-> FALSE, alpha |-> alpha, again |-> Again(alpha), found |-> None,
                      raised |-> o.raised]
    /\ UNCHANGED <<X, n_neighbors, knn, flavor, spectrum, Dchosen>>
    /\ UNCHANGED rootVars
    /\ UNCHANGED eigVars
    /\ UNCHANGED viewVars
    /\ UNCHANGED search

ComputeEigen(n_comps, sym_arg, explicit) ==
    /\ ncalls < MaxCalls
    /\ ncalls' = ncalls + 1
    /\ LET o == EigenOutcome([spectrum |-> spectrum, Dchosen |-> Dchosen],
                             similarities, NObs(X), n_comps, sym_arg, explicit,
                             sqrtz, simFrom # distances)
       IN /\ spectrum' = o.spectrum
          /\ Dchosen' = o.Dchosen
          /\ decomposed' = IF o.raised THEN decomposed ELSE o.spectrum
          /\ call' = [name |-> "compute_eigen", k |-> 0, umap |-> FALSE,
                      explicit |-> explicit, alpha |-> 0, again |-> FALSE, found |-> None,
                      raised |-> o.raised]
    /\ UNCHANGED <<X, n_neighbors, knn, distances, similarities, flavor, Wmat,
                   sqrtz, simFrom>>
    /\ UNCHANGED rootVars
    /\ UNCHANGED <<returned, pseudotime>>
    /\ UNCHANGED viewVars
    /\ UNCHANGED search

\* neighbors.flavor = f (the attribute of line 417, read in line 567)
SetFlavor(f) ==
    /\ ncalls < MaxCalls
    /\ ncalls' = ncalls + 1
    /\ flavor # f
    /\ flavor' = f
    /\ call' = [name |-> "set_flavor", k |-> 0, umap |-> FALSE, explicit |-> FALSE,
                alpha |-> 0, again |-> FALSE, found |-> None, raised |-> FALSE]
    /\ UNCHANGED <<X, n_neighbors, knn, distances, similarities, Wmat, sqrtz,
                   spectrum, Dchosen, simFrom>>
    /\ UNCHANGED rootVars
    /\ UNCHANGED eigVars
    /\ UNCHANGED viewVars
    /\ UNCHANGED search

Flavors == {"haghverdi16", "unweighted"}
\* n_comps as requested: 0 asks for all eigenvectors
Comps == {0, 2}

(***************************************************************************)
(* Rows of Dchosen                                                         *)
(***************************************************************************)
\* the row of diffusion distances from point i, lines 918-924, as what it is
\* computed from
DdiffRow(i, spec) ==
    [i |-> i, evals |-> spec.evals, rbasis |-> spec.rbasis, lbasis |-> spec.lbasis]

\* _get_Ddiff_row, lines 914-924, reading the attributes at the time of the
\* call. self.rbasis[i, l] for l in range(self.evals.size) raises IndexError
\* when the bases have fewer columns than there are eigenvalues.
GetDdiffRow(i) ==
    IF ~sym THEN [raised |-> TRUE]
    ELSE IF spectrum.evals.n > spectrum.rbasis.n \/ spectrum.evals.n > spectrum.lbasis.n
    THEN [raised |-> TRUE]
    ELSE [raised |-> FALSE, row |-> DdiffRow(i, spectrum)]

\* neighbors.Dchosen[i], OnFlySymMatrix.__getitem__ with an integer on the
\* unrestricted view, lines 348-357
DchosenRow(i) ==
    /\ Dchosen # None
    /\ i \in Obs(X)
    /\ LET o == GetDdiffRow(i)
           cached == i \in DOMAIN Dchosen.rows
           raised == ~cached /\ o.raised
       IN /\ Dchosen' = IF cached \/ o.raised THEN Dchosen
                        ELSE [Dchosen EXCEPT !.rows = (i :> o.row) @@ @]
          /\ returned' = IF cached THEN Dchosen.rows[i]
                         ELSE IF o.raised THEN returned ELSE o.row
          /\ call' = [name |-> "Dchosen", k |-> i, umap |-> FALSE, explicit |-> FALSE,
                      alpha |-> 0, again |-> FALSE, found |-> None, raised |-> raised]
    /\ UNCHANGED <<X, n_neighbors, knn, distances, similarities, flavor, Wmat,
                   sqrtz, spectrum, simFrom, ncalls, decomposed, pseudotime>>
    /\ UNCHANGED rootVars
    /\ UNCHANGED viewVars
    /\ UNCHANGED search

(***************************************************************************)
(* The root point                                                          *)
(***************************************************************************)
\* self._adata.shape[1]: the points of the model have one coordinate
NFeatures(x) == 1

\* The scan of _set_iroot_via_xroot reads a root vector through its squared
\* distances dsq = diff.dot(diff) to the points, and these only through the
\* comparisons dsq < dsqroot and sqrt(dsq) < 1e-10, where dsqroot is 1e10 or
\* an earlier dsq. A squared distance is kept as its rank in an order with
\* the landmarks of these comparisons:
\*   0                        dsq = 0: the vector is the point's
\*   1 .. TolRank-1           0 < dsq and sqrt(dsq) < 1e-10
\*   TolRank .. SentinelRank-1    sqrt(dsq) >= 1e-10 and dsq < 1e10
\*   SentinelRank             dsq = 1e10
\*   above SentinelRank       dsq > 1e10
\* line 1031: np.sqrt(dsqroot) < 1e-10
TolRank == 2
\* line 1023: dsqroot = 1e10
SentinelRank == 5
DsqRanks == 0 .. (SentinelRank + 1)

\* The root vectors over the points x: their size and, if it is that of the
\* data, their squared distances to the points. Of x the scan uses only
\* which points are equal: equal points are equally far from the vector, and
\* the vector is at distance 0 from equal points only.
Xroots(x) ==
    {[size |-> NFeatures(x), dsq |-> d] : d \in
        {d \in [Obs(x) -> DsqRanks] :
            \A i \in Obs(x), j \in Obs(x) :
                /\ x[i] = x[j] => d[i] = d[j]
                /\ (d[i] = 0 /\ d[j] = 0) => x[i] = x[j]}}
    \cup {[size |-> NFeatures(x) + 1, dsq |-> <<>>]}

\* line 1031: if np.sqrt(dsqroot) < 1e-10: break
StopsNever(r) == FALSE

StopsAt(r) == r < TolRank

\* lines 1025-1031, from point i on (i counts from 1, iroot from 0)
RECURSIVE ScanFrom(_, _, _, _)
ScanFrom(dsq, i, dsqroot, ir) ==
    IF i > Len(dsq) THEN ir
    ELSE IF dsq[i] < dsqroot
    THEN IF StopsAt(dsq[i]) THEN i - 1
         ELSE ScanFrom(dsq, i + 1, dsq[i], i - 1)
    ELSE ScanFrom(dsq, i + 1, dsqroot, ir)

\* lines 1023-1031: dsqroot = 1e10, iroot = 0, then the scan
ScanRoot(dsq) == ScanFrom(dsq, 1, SentinelRank, 0)

\* _set_iroot_via_xroot, lines 1018-1035
SetIrootViaXrootOutcome(x, old, xr) ==
    IF NFeatures(x) # xr.size THEN [raised |-> TRUE, iroot |-> old]
    ELSE [raised |-> FALSE, iroot |-> <<ScanRoot(xr.dsq)>>]

\* _init_iroot, line 772: xroot is not None and xroot.size == shape[1]
XrootFitsAlways(x, slot) == slot # <<>>

XrootFits(x, slot) == slot # <<>> /\ slot[1].size = NFeatures(x)

\* _init_iroot, lines 756-773
InitIroot(x, st) ==
    IF st.iroot # <<>>
    THEN [raised |-> FALSE,
          iroot |-> IF st.iroot[1] >= NObs(x) THEN <<>> ELSE st.iroot]
    ELSE IF XrootFits(x, st.xroot)
    THEN SetIrootViaXrootOutcome(x, <<>>, st.xroot[1])
    ELSE [raised |-> FALSE, iroot |-> <<>>]

(***************************************************************************)
(* Construction from the persisted slots, and neighbors()                  *)
(***************************************************************************)
\* M[0].nonzero()[0].size of a sparse matrix, lines 424-425 and 439-440: the stored
\* entries of the first row whose value is not zero
FirstRowNonZeros(M) ==
    IF IsCsr(M) THEN Len(NonZeroEntries(RowEntries(M, 1)))
    ELSE Cardinality({ij \in DOMAIN M.e : ij[1] = 1 /\ M.e[ij] # Zero})

\* self.n_neighbors = None, lines 427 and 442 ("is unknown")
UnknownNeighbors == 0 - 1

\* Neighbors.__init__, lines 414-460, on a store st without 'X_diffmap':
\* the attributes of the new object
Constructed(x, st) ==
    LET D == st.neighbors_distances
        S == st.neighbors_similarities
        root == InitIroot(x, st)
        n1 == IF D = None THEN 0
              ELSE IF D.sparse THEN FirstRowNonZeros(D) + 1 ELSE UnknownNeighbors
        k1 == IF D = None THEN "None" ELSE PyBool(D.sparse)
    IN [raised |-> root.raised,
        iroot |-> root.iroot,
        distances |-> D,
        similarities |-> S,
        knn |-> IF S = None THEN k1 ELSE PyBool(S.sparse),
        n_neighbors |-> IF S = None THEN n1
                        ELSE IF S.sparse THEN FirstRowNonZeros(S) + 1
                        ELSE UnknownNeighbors]

\* the object Neighbors(adata) over the points x and the store st
InitConstructed(x, st) ==
    LET c == Constructed(x, st)
    IN /\ X = x
       /\ uns = st
       /\ n_neighbors = c.n_neighbors
       /\ knn = c.knn
       /\ distances = c.distances
       /\ similarities = c.similarities
       /\ iroot = c.iroot
       /\ flavor = "haghverdi16"
       /\ Wmat = None
       /\ sqrtz = FALSE
       /\ spectrum = [evals |-> None, rbasis |-> None, lbasis |-> None]
       /\ Dchosen = None
       /\ simFrom = None
       /\ decomposed = None
       /\ returned = None
       /\ pseudotime = None
       /\ sym = TRUE
       /\ call = [name |-> "construct", k |-> 0, umap |-> FALSE, explicit |-> FALSE,
                  alpha |-> 0, again |-> FALSE, found |-> None, raised |-> c.raised]
       /\ ncalls = 0

\* Neighbors(adata): a new object over the same adata
Construct ==
    /\ ncalls < MaxCalls
    /\ ncalls' = ncalls + 1
    /\ LET c == Constructed(X, uns)
       IN /\ n_neighbors' = c.n_neighbors
          /\ knn' = c.knn
          /\ distances' = c.distances
          /\ similarities' = c.similarities
          /\ iroot' = c.iroot
          /\ call' = [name |-> "construct", k |-> 0, umap |-> FALSE,
                      explicit |-> FALSE, alpha |-> 0, again |-> FALSE, found |-> None,
                      raised |-> c.raised]
    /\ flavor' = "haghverdi16"
    /\ Wmat' = None
    /\ sqrtz' = FALSE
    /\ spectrum' = [evals |-> None, rbasis |-> None, lbasis |-> None]
    /\ Dchosen' = None
    /\ simFrom' = None
    /\ decomposed' = None
    /\ returned' = None
    /\ pseudotime' = None
    /\ UNCHANGED <<X, sym, uns>>
    /\ UNCHANGED viewVars
    /\ UNCHANGED search

\* neighbors(adata, n_neighbors=k, knn=knn_arg, umap=umap), lines 60-66, with
\* the default weights: a new object over adata, compute_distances, the
\* distances stored, compute_similarities(), the similarities stored. The
\* object is left as the function leaves it, also when a call raises.
NeighborsFn(k, knn_arg, umap) ==
    /\ ncalls < MaxRuns
    /\ ncalls' = ncalls + 1
    /\ LET c == Constructed(X, uns)
       IN \E o \in DistancesOutcomes(X, c.distances, k, knn_arg, umap) :
            LET s == IF o.raised
                     THEN [raised |-> TRUE, similarities |-> c.similarities,
                           Wmat |-> None, sqrtz |-> FALSE, distances |-> o.distances]
                     ELSE SimilaritiesOutcome(
                              [similarities |-> c.similarities, Wmat |-> None,
                               sqrtz |-> FALSE],
                              o.distances, o.knn, o.n_neighbors, "haghverdi16", 1)
            IN /\ n_neighbors' = o.n_neighbors
               /\ knn' = o.knn
               /\ distances' = s.distances
               /\ similarities' = s.similarities
               /\ Wmat' = s.Wmat
               /\ sqrtz' = s.sqrtz
               /\ simFrom' = IF s.raised THEN None ELSE o.distances
               /\ iroot' = c.iroot
               /\ uns' = IF o.raised THEN uns
                         ELSE IF s.raised
                         THEN [uns EXCEPT !.neighbors_distances = s.distances,
                                          !.run = NoRun]
                         ELSE [uns EXCEPT !.neighbors_distances = s.distances,
                                          !.neighbors_similarities = s.similarities,
                                          !.run = [knn |-> o.knn,
                                                   n_neighbors |-> o.n_neighbors]]
               /\ call' = [name |-> "neighbors", k |-> k, umap |-> umap,
                           explicit |-> FALSE, alpha |-> 1, again |-> FALSE, found |-> o.found,
                           raised |-> s.raised]
    /\ flavor' = "haghverdi16"
    /\ spectrum' = [evals |-> None, rbasis |-> None, lbasis |-> None]
    /\ Dchosen' = None
    /\ decomposed' = None
    /\ returned' = None
    /\ pseudotime' = None
    /\ UNCHANGED <<X, sym>>
    /\ UNCHANGED viewVars
    /\ UNCHANGED search

\* neighbors._set_iroot_via_xroot(adata.uns['xroot'])
SetIrootViaXroot ==
    /\ ncalls < MaxCalls
    /\ ncalls' = ncalls + 1
    /\ uns.xroot # <<>>
    /\ LET o == SetIrootViaXrootOutcome(X, iroot, uns.xroot[1])
       IN /\ iroot' = o.iroot
          /\ call' = [name |-> "_set_iroot_via_xroot", k |-> 0, umap |-> FALSE,
                      explicit |-> FALSE, alpha |-> 0, again |-> FALSE, found |-> None,
                      raised |-> o.raised]
    /\ UNCHANGED <<X, n_neighbors, knn, distances, similarities, flavor, Wmat,
                   sqrtz, spectrum, Dchosen, simFrom, sym, uns>>
    /\ UNCHANGED eigVars
    /\ UNCHANGED viewVars
    /\ UNCHANGED search

(***************************************************************************)
(* Pseudotime                                                              *)
(***************************************************************************)
\* self.rbasis[i, l] with the index c counted from 0: numpy counts a negative
\* index from the end; the dict of the view keeps the index as it was given
RowOf(c) == IF c < 0 THEN NObs(X) + c + 1 ELSE c + 1
KeyOf(c) == IF c < 0 THEN c ELSE c + 1

\* lines 917-924: entry j of row r is the square root of a sum of squares of
\* rbasis[i, l] - lbasis[j, l], each times a factor. It is exactly zero where
\* the two are one number: at j = i, if rbasis and lbasis are one array. The
\* other entries are data of the decomposition.
ZeroAt(r, j) == j = r.i /\ r.rbasis = r.lbasis

\* line 1004: self.pseudotime /= np.max(self.pseudotime). Where every entry
\* is zero the maximum is zero and every quotient is nan; an entry that is
\* zero stays zero if the maximum is not.
Normalized(r, n) ==
    LET allZero == \A j \in 1 .. n : ZeroAt(r, j)
    IN [of |-> r,
        value |-> [j \in 1 .. n |->
                    IF allZero THEN "nan"
                    ELSE IF ZeroAt(r, j) THEN "0" ELSE "d/max"]]

\* _set_pseudotime, lines 1000-1004. self.Dchosen[self.iroot] raises
\* TypeError while Dchosen or iroot is None; the row is taken from the dict
\* of the view or computed and put there (lines 349-357), and what line 1004
\* divides is the copy made in line 1003.
SetPseudotime ==
    /\ LET unset == Dchosen = None \/ iroot = <<>>
           key == KeyOf(iroot[1])
           cached == ~unset /\ key \in DOMAIN Dchosen.rows
           o == IF RowOf(iroot[1]) \in Obs(X) THEN GetDdiffRow(RowOf(iroot[1]))
                ELSE [raised |-> TRUE]
           raised == unset \/ (~cached /\ o.raised)
           r == IF cached THEN Dchosen.rows[key] ELSE o.row
       IN /\ Dchosen' = IF raised \/ cached THEN Dchosen
                        ELSE [Dchosen EXCEPT !.rows = (key :> o.row) @@ @]
          /\ pseudotime' = IF raised THEN pseudotime
                           ELSE Normalized(r, Dchosen.shape)
          /\ call' = [name |-> "_set_pseudotime", k |-> 0, umap |-> FALSE,
                      explicit |-> FALSE, alpha |-> 0,
                      again |-> call.name = "_set_pseudotime" /\ ~call.raised,
                      found |-> None, raised |-> raised]
    /\ UNCHANGED <<X, n_neighbors, knn, distances, similarities, flavor, Wmat,
                   sqrtz, spectrum, simFrom, ncalls, decomposed, returned>>
    /\ UNCHANGED rootVars
    /\ UNCHANGED viewVars
    /\ UNCHANGED search

(***************************************************************************)
(* The chunked exact search, get_distance_matrix_and_neighbors             *)
(***************************************************************************)
\* n_jobs is 1 .. MaxJobs
MaxJobs == 4
\* row numbers are taken up to MaxRows from 0 and from the multiples of
\* MemoryRows
MaxRows == 12
\* line 106: min(20000, X.shape[0])
MemoryRows == 20000
\* line 98: if X.shape[0] > 1e5, the search is sklearn's and builds no chunks
SklearnAbove == 100000

\* np.ceil(a / b).astype(int)
CeilDiv(a, b) == (a + b - 1) \div b

\* line 107: n_chunks = np.ceil(X.shape[0] / len_chunk).astype(int)
NChunksRoundedDown(n, len_chunk) == n \div len_chunk

NChunks(n, len_chunk) == CeilDiv(n, len_chunk)

\* lines 106-109: the chunks, each np.arange(start, stop), kept by its ends
Chunks(n, n_jobs) ==
    LET len_chunk == CeilDiv(IF MemoryRows < n THEN MemoryRows ELSE n, n_jobs)
        n_chunks == NChunks(n, len_chunk)
    IN [c \in 1 .. n_chunks |->
            LET start == (c - 1) * len_chunk
            IN [start |-> start,
                stop |-> IF start + len_chunk < n THEN start + len_chunk ELSE n]]

\* the row numbers for which the chunked search runs
Sizes ==
    {n \in (1 .. MaxRows) \cup
           {m * MemoryRows + d : m \in 1 .. 5, d \in (0 - MaxRows) .. MaxRows} :
        n <= SklearnAbove}

\* get_distance_matrix_and_neighbors(X, k, sparse=True, n_jobs) has been
\* called with n rows in X; order is the result of get_neighbors for every
\* row of X (<<>> where the rows are not looked at)
Called(n, k, n_jobs, order) ==
    [phase |-> "called", n |-> n, k |-> k, n_jobs |-> n_jobs, order |-> order,
     chunks |-> <<>>, done |-> <<>>, finished |-> <<>>, result_lst |-> <<>>,
     i_chunk |-> 0, indices |-> <<>>, distances |-> <<>>]

\* lines 106-109: the chunks are built
BuildChunks ==
    /\ search.phase = "called"
    /\ search' = [search EXCEPT
            !.phase = "chunked",
            !.chunks = Chunks(search.n, search.n_jobs)]
    /\ UNCHANGED nbrVars
    /\ UNCHANGED viewVars

\* lines 110-112: the output arrays are allocated, filled with zeros, and
\* with n_jobs > 1 the chunks are handed to the workers
AllocateArrays ==
    /\ search.phase = "chunked"
    /\ search' = [search EXCEPT
            !.phase = IF search.n_jobs > 1 THEN "workers" ELSE "merge",
            !.done = [c \in DOMAIN search.chunks |-> None],
            !.indices = [i \in 1 .. search.n |-> [c \in 1 .. (search.k - 1) |-> 0]],
            !.distances = [i \in 1 .. search.n |-> [c \in 1 .. (search.k - 1) |-> 0]]]
    /\ UNCHANGED nbrVars
    /\ UNCHANGED viewVars

\* get_neighbors(X[chunk], X, k), lines 79-87: the rows of the chunk, each
\* as argpartition and argsort order it. Both work row by row, so a row's
\* result does not depend on the chunk it is computed in.
ChunkResult(order, ch) ==
    [indices |-> [r \in 1 .. (ch.stop - ch.start) |-> order.indices[ch.start + r]],
     distances |-> [r \in 1 .. (ch.stop - ch.start) |-> order.distances[ch.start + r]]]

\* a worker of Parallel(n_jobs, backend='threading') completes chunk c; the
\* workers complete in any order (lines 117-118)
WorkerDone(c) ==
    /\ search.phase = "workers"
    /\ c \in DOMAIN search.chunks
    /\ search.done[c] = None
    /\ search' = [search EXCEPT
            !.done[c] = ChunkResult(search.order, search.chunks[c]),
            !.finished = Append(@, c)]
    /\ UNCHANGED nbrVars
    /\ UNCHANGED viewVars

\* the list that Parallel returns: the results in the order of the delayed
\* calls, which is that of the chunks
CollectedAsCompleted(done, finished) == [p \in DOMAIN finished |-> done[finished[p]]]

Collected(done, finished) == [c \in DOMAIN done |-> done[c]]

\* Parallel(...)(...) returns once every worker has completed, line 117
Gather ==
    /\ search.phase = "workers"
    /\ \A c \in DOMAIN search.chunks : search.done[c] # None
    /\ search' = [search EXCEPT
            !.phase = "merge",
            !.result_lst = Collected(search.done, search.finished)]
    /\ UNCHANGED nbrVars
    /\ UNCHANGED viewVars

\* indices[chunk] = indices_chunk, lines 124-125
WriteChunk(arr, ch, rows) ==
    [i \in DOMAIN arr |->
        IF ch.start < i /\ i <= ch.stop THEN rows[i - ch.start] ELSE arr[i]]

\* one turn of the loop of lines 119-125
MergeChunk ==
    /\ search.phase = "merge"
    /\ search.i_chunk < Len(search.chunks)
    /\ LET c == search.i_chunk + 1
           ch == search.chunks[c]
           res == IF search.n_jobs > 1 THEN search.result_lst[c]
                  ELSE ChunkResult(search.order, ch)
       IN search' = [search EXCEPT
            !.i_chunk = c,
            !.indices = WriteChunk(@, ch, res.indices),
            !.distances = WriteChunk(@, ch, res.distances)]
    /\ UNCHANGED nbrVars
    /\ UNCHANGED viewVars

\* the loop is over and the arrays are returned, lines 126-127
ReturnArrays ==
    /\ search.phase = "merge"
    /\ search.i_chunk = Len(search.chunks)
    /\ search' = [search EXCEPT !.phase = "returned"]
    /\ UNCHANGED nbrVars
    /\ UNCHANGED viewVars

(***************************************************************************)
(* Specifications                                                          *)
(***************************************************************************)
NextView ==
    \/ \E vi \in 1 .. MaxViews, index \in Rows : LookupRow(vi, index)
    \/ \E vi \in 1 .. MaxViews, i \in Rows, j \in Rows : LookupPair(vi, i, j)
    \/ \E vi \in 1 .. MaxViews, a \in IndexArrays : Restrict(vi, a)
    \/ SpectrumChanges

\* the lazy views of a Neighbors object that is left alone
InitView ==
    /\ InitNeighbors(<<0>>)
    /\ InitViews
    /\ search = NoSearch

SpecView == InitView /\ [][NextView]_vars

\* neighbors(), lines 60-66: a new object, compute_distances, then
\* compute_similarities() if the distances were computed
NextPipe ==
    \/ /\ call.name = "init"
       /\ \E k \in 1 .. MaxK, knn_arg \in BOOLEAN, umap \in BOOLEAN :
            ComputeDistances(k, knn_arg, umap)
    \/ /\ call.name = "compute_distances"
       /\ ~call.raised
       /\ ComputeSimilarities(1)

InitPipe ==
    /\ \E x \in PointSets : InitNeighbors(x)
    /\ InitViews
    /\ search = NoSearch

SpecPipe == InitPipe /\ [][NextPipe]_vars

\* a Neighbors object under any sequence of calls
Next ==
    \/ \E k \in 1 .. MaxK, knn_arg \in BOOLEAN, umap \in BOOLEAN :
            ComputeDistances(k, knn_arg, umap)
    \/ \E alpha \in Alphas : ComputeSimilarities(alpha)
    \/ \E n_comps \in Comps, sym_arg \in BOOLEAN, explicit \in BOOLEAN :
            ComputeEigen(n_comps, sym_arg, explicit)
    \/ \E f \in Flavors : SetFlavor(f)

Init ==
    /\ \E x \in DistinctPointSets : InitNeighbors(x)
    /\ InitViews
    /\ search = NoSearch

Spec == Init /\ [][Next]_vars

\* the calls on one Neighbors object, and rows asked of its Dchosen
NextEigen ==
    \/ Next
    \/ \E i \in 1 .. MaxN : DchosenRow(i)

InitEigen ==
    /\ \E x \in DistinctPointSets : InitNeighbors(x)
    /\ InitViews
    /\ search = NoSearch

SpecEigen == InitEigen /\ [][NextEigen]_vars

\* the stored root indices _init_iroot accepts for the points x (line 760),
\* and no stored index
StoredRoots(x) == {<<>>} \cup {<<c>> : c \in (0 - 1) .. (NObs(x) - 1)}

\* a Neighbors object built on a stored root index: the calls that lead to a
\* spectrum, rows asked of its Dchosen, and _set_pseudotime
NextPseudo ==
    \/ \E knn_arg \in BOOLEAN : ComputeDistances(2, knn_arg, FALSE)
    \/ ComputeSimilarities(1)
    \/ \E n_comps \in Comps, sym_arg \in BOOLEAN, explicit \in BOOLEAN :
            ComputeEigen(n_comps, sym_arg, explicit)
    \/ \E i \in 1 .. MaxN : DchosenRow(i)
    \/ SetPseudotime

InitPseudo ==
    /\ \E x \in DistinctPointSets, c \in {<<>>} \cup {<<c>> : c \in (0 - 1) .. (MaxN - 1)} :
            /\ c \in StoredRoots(x)
            /\ InitConstructed(x, [EmptyStore EXCEPT !.iroot = c])
    /\ InitViews
    /\ search = NoSearch

SpecPseudo == InitPseudo /\ [][NextPseudo]_vars

\* point sets in any numbering of the points
PointSeqs == UNION {[1 .. n -> 0 .. MaxCoord] : n \in 1 .. MaxN}

\* neighbors() and Neighbors(adata) over one adata
NextStore ==
    \/ \E k \in 1 .. MaxK, knn_arg \in BOOLEAN, umap \in BOOLEAN :
            NeighborsFn(k, knn_arg, umap)
    \/ Construct

InitStore ==
    /\ \E x \in PointSeqs : InitConstructed(x, EmptyStore)
    /\ InitViews
    /\ search = NoSearch

SpecStore == InitStore /\ [][NextStore]_vars

\* the stores with a root: the slot 'iroot' holds any integer from -1 to N,
\* the slot 'xroot' any root vector
RootStores(x) ==
    {[EmptyStore EXCEPT !.iroot = ir, !.xroot = xr] :
        ir \in {<<>>} \cup {<<c>> : c \in (0 - 1) .. NObs(x)},
        xr \in {<<>>} \cup {<<v>> : v \in Xroots(x)}}

\* the root of a Neighbors object built on a store with a root
NextRoot ==
    \/ SetIrootViaXroot
    \/ Construct

InitRoot ==
    /\ \E x \in PointSeqs : \E st \in RootStores(x) : InitConstructed(x, st)
    /\ InitViews
    /\ search = NoSearch

SpecRoot == InitRoot /\ [][NextRoot]_vars

\* the chunks of get_distance_matrix_and_neighbors for every number of rows
\* and of jobs; the rows themselves are not looked at
NextChunks == BuildChunks

InitChunks ==
    /\ InitNeighbors(<<0>>)
    /\ \E n \in Sizes, n_jobs \in 1 .. MaxJobs : search = Called(n, 2, n_jobs, <<>>)
    /\ InitViews

SpecChunks == InitChunks /\ [][NextChunks]_vars

\* pairwise different points in any numbering (the chunks go by the numbers;
\* equal points would add tie orders only)
DistinctPointSeqs == {x \in PointSeqs : IsInjective(x)}

\* one call of get_distance_matrix_and_neighbors(X, k, sparse=True, n_jobs)
\* with its workers
NextJobs ==
    \/ BuildChunks
    \/ AllocateArrays
    \/ \E c \in 1 .. MaxN : WorkerDone(c)
    \/ Gather
    \/ MergeChunk
    \/ ReturnArrays

InitJobs ==
    /\ \E x \in DistinctPointSeqs : InitNeighbors(x)
    /\ \E k \in 1 .. NObs(X), n_jobs \in 1 .. MaxJobs :
         \E order \in GetNeighbors(SqDist(X), k) :
            search = Called(NObs(X), k, n_jobs, order)
    /\ InitViews

SpecJobs == InitJobs /\ [][NextJobs]_vars

(***************************************************************************)
(* Properties of the lazy views, stated for SpecView                       *)
(***************************************************************************)
\* the unrestricted view a view was derived from
RootOf(v) == views[v.root]
LastView == views[ret.view]
IsLookup == ret.kind \in {"row", "pair"}

\* the value a lookup described by ret returns when the row it reads is row
RetValueFrom(row) ==
    IF ret.kind = "pair" THEN <<row[ret.col]>>
    ELSE IF LastView.restricted
    THEN [p \in 1 .. Len(LastView.restrict_array) |-> row[LastView.restrict_array[p]]]
    ELSE row

\* C1: over an unrestricted view and all views derived from it by restrict(),
\* get_row has run at most once for every global row index, and every lookup
\* returns the row (or its entry, or its restriction) that get_row produced
\* at the first request for that global row, whatever the spectrum is now.
C1_RowComputedAtMostOnce ==
    /\ \A r \in 1 .. Len(calls) : \A g \in Rows : calls[r][g] <= 1
    /\ IsLookup =>
        /\ ret.glob \in DOMAIN first[LastView.root]
        /\ ret.value = RetValueFrom(first[LastView.root][ret.glob])

\* a lookup through a restricted view is served from the cache after the
\* spectrum has changed: it returns the row of the first request, which
\* get_row would not produce now
C1_Witness ==
    /\ IsLookup
    /\ ~ret.computed
    /\ LastView.restricted
    /\ calls[LastView.root][ret.glob] = 1
    /\ first[LastView.root][ret.glob] # GetRow(gen, ret.glob)

\* C2: for every restricted view with index array S over the full view f
\*   restrict(S)[a, b] = f[S[a], S[b]]              for all positions a, b
\*   restrict(S)[a]    = (f[S[a]][S[p]] : p a position of S)
\* whichever of the two lookups is made first, and the last lookup made
\* through a restricted view returned what the full view returns for the
\* translated index.
C2_RestrictTranslatesIndices ==
    /\ \A vi \in 1 .. Len(views) :
        LET v == views[vi]
            f == RootOf(v)
            S == v.restrict_array
        IN v.restricted =>
            \A a \in 0 .. (v.shape - 1) :
                /\ \A b \in 0 .. (v.shape - 1) :
                    LET r == GetItemPair(heap, v, gen, a, b)
                        full == GetItemPair(heap, f, gen, S[a + 1], S[b + 1])
                    IN /\ r.value = GetItemPair(r.heap, f, gen, S[a + 1], S[b + 1]).value
                       /\ full.value = GetItemPair(full.heap, v, gen, a, b).value
                /\ LET r == GetItemInt(heap, v, gen, a)
                       full == GetItemInt(r.heap, f, gen, S[a + 1])
                   IN r.value = [p \in 1 .. Len(S) |-> full.value[S[p]]]
    /\ (ret.kind = "pair" /\ LastView.restricted) =>
        LET S == LastView.restrict_array
        IN ret.value = <<GetItemPair(heap, RootOf(LastView), gen,
                                     S[ret.index[1] + 1], S[ret.index[2] + 1]).value>>
    /\ (ret.kind = "row" /\ LastView.restricted) =>
        LET S == LastView.restrict_array
            full == GetItemInt(heap, RootOf(LastView), gen, S[ret.index[1] + 1]).value
        IN ret.value = [p \in 1 .. Len(S) |-> full[S[p]]]

\* an off-diagonal entry was read through a view restricted to the rows in
\* reverse order, and is the full view's entry at the translated index
C2_Witness ==
    /\ ret.kind = "pair"
    /\ LastView.restricted
    /\ LastView.restrict_array = <<1, 0>>
    /\ ret.index = <<0, 1>>
    /\ ret.glob = 1
    /\ ret.col = 0
    /\ ret.value # <<0>>

\* a step of restrict(): no dict is created and none changed, get_row is not
\* run, and the new view holds the dict of the view restrict() was called on
C3_RestrictStep ==
    (Len(views') = Len(views) + 1 /\ ret'.kind = "restrict") =>
        /\ heap' = heap
        /\ \A r \in 1 .. Len(calls) : calls'[r] = calls[r]
        /\ calls'[Len(views')] = ZeroCalls
        /\ views'[Len(views')].rows = views[ret'.view].rows

\* all views derived from one unrestricted view hold one dict, and a row in
\* it is served through each of them without running get_row
C3_SharedCache ==
    \A vi \in 1 .. Len(views), wi \in 1 .. Len(views) :
        views[vi].root = views[wi].root =>
            /\ views[vi].rows = views[wi].rows
            /\ \A index \in 0 .. (views[wi].shape - 1) :
                GlobIndex(views[wi], index) \in DOMAIN heap[views[vi].rows] =>
                    /\ GetItemInt(heap, views[wi], gen, index).invoked = {}
                    /\ GetItemInt(heap, views[wi], gen, index).heap = heap

\* C3: restrict() runs get_row zero times and leaves the row cache unchanged;
\* the view it returns uses the very same cache, so rows cached before are
\* served through the restricted view without recomputation, and rows
\* computed through the restricted view are served from the cache by the
\* original view.
C3_RestrictSharesCache == [](C3_SharedCache) /\ [][C3_RestrictStep]_vars

\* restrict() was called on a view whose cache holds a row, and the returned
\* view serves that row without running get_row
C3_Witness ==
    /\ ret.kind = "restrict"
    /\ LET w == views[Len(views)]
       IN /\ w.restricted
          /\ w.rows = LastView.rows
          /\ \E index \in 0 .. (w.shape - 1) :
                /\ GlobIndex(w, index) \in DOMAIN heap[LastView.rows]
                /\ GetItemInt(heap, w, gen, index).invoked = {}

(***************************************************************************)
(* Properties of the Neighbors object                                      *)
(***************************************************************************)
Stores == <<distances, similarities, spectrum, Dchosen>>

\* C4: compute_similarities without distances, compute_eigen without
\* similarities and without an explicit matrix, and compute_similarities with
\* flavor 'unweighted' while knn is not True each raise, and leave distances,
\* similarities, eigenvalues, eigenbases and the lazy view as they were.
C4_Step ==
    (ncalls' = ncalls + 1) =>
        /\ (call'.name = "compute_similarities" /\ distances = None) =>
                (call'.raised /\ UNCHANGED Stores)
        /\ (call'.name = "compute_eigen" /\ ~call'.explicit /\ similarities = None) =>
                (call'.raised /\ UNCHANGED Stores)
        /\ (call'.name = "compute_similarities" /\ flavor = "unweighted"
                /\ knn # "True") =>
                (call'.raised /\ UNCHANGED Stores)

C4_UsageErrorsLeaveState == [][C4_Step]_vars

\* compute_eigen raised for want of similarities on an object that holds
\* distances and an earlier spectrum, and both are still there
C4_Witness ==
    /\ call.name = "compute_eigen"
    /\ call.raised
    /\ ~call.explicit
    /\ similarities = None
    /\ distances # None
    /\ spectrum.evals # None
    /\ Dchosen # None

Min(a, b) == IF a < b THEN a ELSE b

\* the distance graph stores exactly c neighbors for every point
EveryRowHas(c) ==
    /\ distances # None
    /\ distances.sparse
    /\ \A i \in Obs(X) : Len(RowEntries(distances, i)) = c

\* C5: after compute_distances in knn mode, for every N >= 1 and k >= 1,
\* every point has exactly min(k - 1, N - 1) neighbors in the distance graph,
\* k being the neighbor number after the small-dataset adjustment.
C5_NeighborCount ==
    (call.name = "compute_distances" /\ ~call.umap /\ knn = "True") =>
        /\ ~call.raised
        /\ EveryRowHas(Min(n_neighbors - 1, NObs(X) - 1))

\* what the code does: the call completes exactly if the adjusted neighbor
\* number is at least 2, and then every point has that number less one
C5_CountWhenCompleted ==
    (call.name = "compute_distances" /\ ~call.umap /\ knn = "True") =>
        /\ call.raised <=> (n_neighbors = 1)
        /\ ~call.raised => EveryRowHas(n_neighbors - 1)

\* C6: compute_distances stores in .n_neighbors the value 1 + floor(N/2) if
\* the requested n_neighbors is greater than the number of points N, and the
\* requested value otherwise.
C6_EffectiveNeighbors ==
    call.name = "compute_distances" =>
        n_neighbors = IF call.k > Len(X) THEN 1 + (Len(X) \div 2) ELSE call.k

\* three points and four requested neighbors: .n_neighbors is 2
C6_Witness ==
    /\ call.name = "compute_distances"
    /\ ~call.raised
    /\ Len(X) = 3
    /\ call.k = 4
    /\ n_neighbors = 2

\* C7: the neighbor list the exact search returns for point i never holds i,
\* also for point sets with duplicate points.
C7_NoSelfNeighbor ==
    (call.name = "compute_distances" /\ ~call.raised /\ ~call.umap /\ knn = "True") =>
        \A i \in Obs(X) : <<i, i>> \notin Stored(distances)

\* the same for point sets without duplicate points
C7_NoSelfNeighborDistinct ==
    (\A i \in Obs(X), j \in Obs(X) : i # j => X[i] # X[j]) => C7_NoSelfNeighbor

\* C8: after compute_similarities with the weighted flavor the weight matrix
\* is symmetric: (i, j) is stored iff (j, i) is, with the same value.
C8_WeightsSymmetric ==
    (call.name = "compute_similarities" /\ ~call.raised) =>
        /\ PatternSymmetric(Wmat)
        /\ IsSymmetric(Wmat)

\* the same for distance graphs in which no point is its own neighbor
C8_WeightsSymmetricNoSelfLoop ==
    (distances # None /\ \A i \in Obs(X) : <<i, i>> \notin Stored(distances)) =>
        C8_WeightsSymmetric

\* C9: after every compute_similarities call that completes, for either
\* flavor, similarities[i, j] = similarities[j, i] for all i, j.
C9_SimilaritiesSymmetric ==
    (call.name = "compute_similarities" /\ ~call.raised) =>
        IsSymmetric(similarities)

\* C10: stored similarities were derived from the stored distance graph, and
\* compute_eigen decomposes no similarities derived from another graph.
C10_SimilaritiesCurrent ==
    /\ similarities # None => simFrom = distances
    /\ spectrum.evals # None => ~spectrum.evals.stale

\* C11: a Neighbors object constructed from the store that a completed run
\* of neighbors() wrote has the knn flag and the neighbor number of that run.
C11_RoundTrip ==
    (call.name = "construct" /\ uns.run # NoRun) =>
        /\ knn = uns.run.knn
        /\ n_neighbors = uns.run.n_neighbors

\* the same for the runs that stored sparse graphs with knn = True
C11_RoundTripSparse ==
    (uns.run.knn = "True" /\ uns.neighbors_distances.sparse) => C11_RoundTrip

\* the knn flag alone, for the runs without umap
C11_RoundTripFlag ==
    (call.name = "construct" /\ uns.run # NoRun
        /\ (uns.run.knn = "True" <=> uns.neighbors_distances.sparse)) =>
        knn = uns.run.knn

\* C12: compute_similarities leaves the distance graph, the knn flag,
\* n_neighbors and the flavor as they were, and a call that directly follows
\* a completed call with the same alpha completes with identical similarities.
C12_Step ==
    call'.name = "compute_similarities" =>
        /\ distances' = distances
        /\ knn' = knn
        /\ n_neighbors' = n_neighbors
        /\ flavor' = flavor
        /\ call'.again => (~call'.raised /\ similarities' = similarities)

C12_SimilaritiesIdempotent == [][C12_Step]_vars

\* a second call in a row with the same alpha has completed on the sparse
\* path with weights, and another on the dense path
C12_Repeated(sparse) ==
    /\ call.name = "compute_similarities" /\ call.again /\ ~call.raised
    /\ distances.sparse = sparse
    /\ flavor = "haghverdi16"

C12_Witness == C12_Repeated(TRUE)

C12_WitnessDense == C12_Repeated(FALSE)

\* C13: the matrix that get_sparse_distance_matrix builds from N x (k-1)
\* arrays is N x N, its row pointer is indptr[i] = i (k-1) for i in 0 .. N,
\* and row i stores the pairs (indices[i, c], distances[i, c]), c in
\* 0 .. k-2, in this order.
C13_FixedDegreeLayout ==
    (call.name = "compute_distances" /\ ~call.raised /\ call.found # None) =>
        LET w == n_neighbors - 1
        IN /\ distances.shape = NObs(X)
           /\ distances.indptr = [i \in 1 .. (NObs(X) + 1) |-> (i - 1) * w]
           /\ \A i \in Obs(X) :
                /\ Len(call.found.indices[i]) = w
                /\ Len(call.found.distances[i]) = w
                /\ RowEntries(distances, i) =
                     [c \in 1 .. w |->
                        <<call.found.indices[i][c], call.found.distances[i][c]>>]

\* a matrix was built from arrays with two columns
C13_Witness ==
    /\ call.name = "compute_distances" /\ ~call.raised /\ call.found # None
    /\ n_neighbors - 1 = 2
    /\ NObs(X) = MaxN

\* the root vector handed to _set_iroot_via_xroot is the vector of a point
TargetIsPoint ==
    /\ call.name = "_set_iroot_via_xroot" /\ ~call.raised
    /\ \E p \in Obs(X) : uns.xroot[1].dsq[p] = 0

Lowest(S) == CHOOSE i \in S : \A j \in S : i <= j

\* the points within 1e-10 of the root vector, and those at distance 0
Within == {i \in Obs(X) : uns.xroot[1].dsq[i] < TolRank}
Exact == {i \in Obs(X) : uns.xroot[1].dsq[i] = 0}

C15_RootInRange ==
    call.name = "construct" =>
        \/ iroot = <<>>
        \/ iroot[1] \in 0 .. (NObs(X) - 1)

\* the part of it that line 760 enforces: a stored index of N or above is
\* ignored
C15_RootBelowN ==
    call.name = "construct" => (iroot = <<>> \/ iroot[1] < NObs(X))

\* a root vector of the wrong size was handed to _set_iroot_via_xroot
WrongSizeDirect ==
    /\ call.name = "_set_iroot_via_xroot"
    /\ uns.xroot[1].size # NFeatures(X)

\* the object was constructed from a store whose 'xroot' has the wrong size
\* (and which holds no 'iroot', so that 'xroot' is looked at)
WrongSizeStored ==
    /\ call.name = "construct"
    /\ uns.iroot = <<>> /\ uns.xroot # <<>>
    /\ uns.xroot[1].size # NFeatures(X)

\* C16 as stated: a root vector whose size is not the number of features
\* raises, handed to _set_iroot_via_xroot or supplied as 'xroot' in the store
\* at construction, and iroot is left as it was.
C16_Step ==
    /\ WrongSizeDirect' => (call'.raised /\ iroot' = iroot)
    /\ WrongSizeStored' => call'.raised

C16_WrongSizeFatal ==
    /\ [](WrongSizeStored => call.raised)
    /\ [][C16_Step]_vars

\* C16: a root vector whose size is not the number of features raises when
\* handed to _set_iroot_via_xroot, and iroot is left as it was; supplied as
\* 'xroot' in the store it is ignored at construction: nothing is raised and
\* the root is unset.
C16_AmendedStep ==
    /\ WrongSizeDirect' => (call'.raised /\ iroot' = iroot)
    /\ WrongSizeStored' => (~call'.raised /\ iroot' = <<>>)

C16_WrongSizeFatalWhenDirect ==
    /\ [](WrongSizeStored => (~call.raised /\ iroot = <<>>))
    /\ [][C16_AmendedStep]_vars

\* a vector of the wrong size was handed over while a root was set
C16_Witness ==
    /\ WrongSizeDirect
    /\ call.raised
    /\ iroot # <<>>

\* an object was constructed from a store with an 'xroot' of the wrong size
C16_WitnessStored == WrongSizeStored /\ ncalls > 0

\* _set_iroot_via_xroot has completed a scan
Scanned == call.name = "_set_iroot_via_xroot" /\ ~call.raised

\* the points no other point is nearer to the root vector than
Nearest ==
    {i \in Obs(X) : \A j \in Obs(X) : uns.xroot[1].dsq[i] <= uns.xroot[1].dsq[j]}

\* C17: the point that _set_iroot_via_xroot selects is the first of the
\* points at minimal squared distance from the root vector, or a point within
\* 1e-10 of it at which the scan stopped.
C17_NearestSelected ==
    Scanned =>
        \/ iroot = <<Lowest(Nearest) - 1>>
        \/ Within # {} /\ iroot = <<Lowest(Within) - 1>>

\* the same for root vectors with a point at a squared distance below 1e10
C17_NearestSelectedBelowSentinel ==
    (Scanned /\ \E i \in Obs(X) : uns.xroot[1].dsq[i] < SentinelRank) =>
        \/ iroot = <<Lowest(Nearest) - 1>>
        \/ Within # {} /\ iroot = <<Lowest(Within) - 1>>

\* C18: a compute_eigen call that completes leaves a Dchosen with an empty
\* row cache, and every row that Dchosen returns was computed from the
\* eigenvalues and bases of the latest decomposition that completed.
C18_RowsFromLatestDecomposition ==
    /\ (call.name = "compute_eigen" /\ ~call.raised) =>
            (Dchosen # None /\ Dchosen.rows = <<>> /\ spectrum = decomposed)
    /\ (call.name = "Dchosen" /\ ~call.raised) =>
            returned = DdiffRow(call.k, decomposed)

\* the part of it about the call itself
C18_FreshViewOnCompletion ==
    (call.name = "compute_eigen" /\ ~call.raised) =>
        (Dchosen # None /\ Dchosen.rows = <<>> /\ spectrum = decomposed)

\* C19: after a decomposition with sym=False, which stores different left
\* and right bases, asking Dchosen for a row raises.
C19_AsymmetricRowsRaise ==
    (call.name = "Dchosen" /\ decomposed.rbasis # decomposed.lbasis) => call.raised

\* C20: whenever the object holds a distance graph, its knn flag is True iff
\* the graph is sparse.
C20_KnnIffSparse ==
    distances # None => (knn = "True" <=> distances.sparse)

\* the same after compute_distances calls that completed without umap
C20_KnnIffSparseWithoutUmap ==
    (call.name = "compute_distances" /\ ~call.raised /\ ~call.umap) =>
        C20_KnnIffSparse

\* the same after construction from the persisted slots
C20_KnnIffSparseConstructed ==
    call.name = "construct" => C20_KnnIffSparse

\* the chunks have been built
Chunked == search.phase \notin {"none", "called"}

\* C22: the chunks are non-empty and contiguous, the first starts at row 0,
\* each following one where the one before it stops, the last stops at row
\* N, and none has more than ceil(min(20000, N) / n_jobs) rows: every row
\* 0 .. N-1 lies in exactly one chunk.
C22_ChunksPartitionRows ==
    Chunked =>
        LET ch == search.chunks
            cap == CeilDiv(IF MemoryRows < search.n THEN MemoryRows ELSE search.n,
                           search.n_jobs)
        IN /\ Len(ch) >= 1
           /\ ch[1].start = 0
           /\ ch[Len(ch)].stop = search.n
           /\ \A c \in DOMAIN ch :
                /\ ch[c].start < ch[c].stop
                /\ ch[c].stop - ch[c].start <= cap
                /\ c > 1 => ch[c].start = ch[c - 1].stop

\* chunks were built for more rows than fit into memory at once, with a last
\* chunk shorter than the others
C22_Witness ==
    /\ Chunked
    /\ search.n > MemoryRows
    /\ Len(search.chunks) > search.n_jobs
    /\ search.chunks[Len(search.chunks)].stop - search.chunks[Len(search.chunks)].start
         < search.chunks[1].stop - search.chunks[1].start

\* the arrays of the run with n_jobs = 1: the loop of lines 119-125 over the
\* chunks built for one job
RECURSIVE SequentialFrom(_, _, _, _)
SequentialFrom(order, chunks, c, arr) ==
    IF c > Len(chunks) THEN arr
    ELSE LET res == ChunkResult(order, chunks[c])
         IN SequentialFrom(order, chunks, c + 1,
                [indices |-> WriteChunk(arr.indices, chunks[c], res.indices),
                 distances |-> WriteChunk(arr.distances, chunks[c], res.distances)])

SequentialRun ==
    LET zeros == [i \in 1 .. search.n |-> [c \in 1 .. (search.k - 1) |-> 0]]
    IN SequentialFrom(search.order, Chunks(search.n, 1), 1,
                      [indices |-> zeros, distances |-> zeros])

\* C21: while workers run the output arrays are untouched; the merge writes
\* the chunks in the order of their index; and whatever the order in which
\* the workers completed, the arrays returned are those of the run with
\* n_jobs = 1.
C21_MergeByChunkIndex ==
    /\ search.phase = "workers" =>
            \A i \in 1 .. search.n : \A c \in 1 .. (search.k - 1) :
                search.indices[i][c] = 0 /\ search.distances[i][c] = 0
    /\ search.phase = "merge" =>
            \A c \in 1 .. search.i_chunk :
                \A i \in (search.chunks[c].start + 1) .. search.chunks[c].stop :
                    /\ search.indices[i] = SequentialRun.indices[i]
                    /\ search.distances[i] = SequentialRun.distances[i]
    /\ search.phase = "returned" =>
            /\ search.indices = SequentialRun.indices
            /\ search.distances = SequentialRun.distances

\* arrays were returned by a run whose workers did not complete in the order
\* of their chunks
C21_Witness ==
    /\ search.phase = "returned"
    /\ search.n_jobs > 1
    /\ \E p \in DOMAIN search.finished : search.finished[p] # p
    /\ search.k > 1
    /\ \E i \in 1 .. search.n, j \in 1 .. search.n : search.indices[i] # search.indices[j]

\* the view a step of restrict() returned, the view it was called on, and the
\* index array it was given
Restricted == views[Len(views)]
RestrictedFrom == views[ret.view]

\* a step of restrict() with index array T, on any view V: the view returned
\* reads, at positions a, b, row T[a] and column T[b] of the full matrix and
\* returns what the unrestricted view returns at (T[a], T[b])
C23_Step ==
    (Len(views') = Len(views) + 1 /\ ret'.kind = "restrict") =>
        LET V == views[ret'.view]
            T == ret'.index
            W == views'[Len(views')]
            full == views'[V.root]
        IN /\ W.shape = Len(T)
           /\ W.root = V.root
           /\ \A a \in 0 .. (Len(T) - 1), b \in 0 .. (Len(T) - 1) :
                LET r == GetItemPair(heap', W, gen', a, b)
                IN /\ r.glob = T[a + 1]
                   /\ r.col = T[b + 1]
                   /\ r.value = GetItemPair(r.heap, full, gen', T[a + 1], T[b + 1]).value

\* every pair lookup made through a restricted view read the row and the
\* column its own index array names, from the rows of the full matrix
C23_Lookups ==
    (ret.kind = "pair" /\ LastView.restricted) =>
        LET T == LastView.restrict_array
        IN /\ ret.glob = T[ret.index[1] + 1]
           /\ ret.col = T[ret.index[2] + 1]
           /\ ret.value = <<first[LastView.root][ret.glob][ret.col]>>

\* C23: restrict() reads its index array as global indices of the full
\* matrix also when it is called on a restricted view: for a view V
\* restricted to S and an index array T, V.restrict(T)[a, b] is
\* full[T[a], T[b]]; S is not carried over.
C23_RestrictTakesGlobalIndices == [](C23_Lookups) /\ [][C23_Step]_vars

\* restrict(T) was called on a view restricted to S, at a position where
\* reading T through S names another row than T does
C23_Witness ==
    /\ ret.kind = "restrict"
    /\ RestrictedFrom.restricted
    /\ Restricted.restrict_array = ret.index
    /\ \E a \in DOMAIN ret.index :
            /\ ret.index[a] + 1 \in DOMAIN RestrictedFrom.restrict_array
            /\ RestrictedFrom.restrict_array[ret.index[a] + 1] # ret.index[a]
            /\ GetItemPair(heap, Restricted, gen, a - 1, a - 1).glob = ret.index[a]

(***************************************************************************)
(* Properties of _set_pseudotime, stated for SpecPseudo                    *)
(***************************************************************************)
PseudotimeSet == call.name = "_set_pseudotime" /\ ~call.raised

\* a step of _set_pseudotime: the rows the dict of Dchosen held are the rows
\* it holds, none of them divided; a call that returns leaves the row of the
\* root in the dict as _get_Ddiff_row made it, and pseudotime is made of
\* that row; a call that follows a call leaves pseudotime as it was
C24_Step ==
    (call'.name = "_set_pseudotime") =>
        /\ Dchosen # None =>
                /\ Dchosen' # None
                /\ \A key \in DOMAIN Dchosen.rows :
                        /\ key \in DOMAIN Dchosen'.rows
                        /\ Dchosen'.rows[key] = Dchosen.rows[key]
        /\ ~call'.raised =>
                /\ KeyOf(iroot[1]) \in DOMAIN Dchosen'.rows
                /\ Dchosen'.rows[KeyOf(iroot[1])].i = RowOf(iroot[1])
                /\ pseudotime'.of = Dchosen'.rows[KeyOf(iroot[1])]
        /\ (call'.again /\ ~call'.raised) => pseudotime' = pseudotime

\* the row cache is kept and repeated calls agree
C24_CacheKept == [][C24_Step]_vars

\* the root's pseudotime after a call that returned
C24_RootZero ==
    PseudotimeSet => pseudotime.value[RowOf(iroot[1])] = "0"

\* C24: _set_pseudotime leaves the row cache of the lazy matrix as it is and
\* normalizes a copy of the root row: after any number of calls Dchosen[iroot]
\* is the unnormalized row, the root's pseudotime is 0, and repeated calls
\* with the same root give the same pseudotime.
C24_PseudotimeOfRootRowCopy == [](C24_RootZero) /\ [][C24_Step]_vars

\* the root's pseudotime is 0 where the row has another entry and the bases
\* of the row are one array
C24_RootZeroAmongOthers ==
    (PseudotimeSet /\ NObs(X) > 1 /\ pseudotime.of.rbasis = pseudotime.of.lbasis) =>
        pseudotime.value[RowOf(iroot[1])] = "0"

\* _set_pseudotime returned twice in a row on a view that held the root row
C24_Repeated ==
    /\ PseudotimeSet
    /\ call.again
    /\ NObs(X) > 1
    /\ pseudotime.value[RowOf(iroot[1])] = "0"

\* the root's pseudotime is nan: the data are one point
C24_NanAtRoot ==
    /\ PseudotimeSet
    /\ pseudotime.value[RowOf(iroot[1])] = "nan"

\* the root's pseudotime is computed from two different bases
C24_TwoBasesAtRoot ==
    /\ PseudotimeSet
    /\ pseudotime.of.rbasis # pseudotime.of.lbasis
    /\ pseudotime.value[RowOf(iroot[1])] = "d/max"
====
